---------------------------- MODULE Spec2Model ----------------------------
(***************************************************************************)
(* A model of arango-mcp-server (src/index.ts): the startup argument       *)
(* handling, the capability registration, the per-database connection      *)
(* cache, the request handlers with their suspension points, and the       *)
(* exported URI parser parseArangoDBURI.                                   *)
(*                                                                         *)
(* Command-line tokens and URIs are sequences of one-character strings, so *)
(* that startsWith, slice and split are computed character by character.   *)
(* Database and collection names handled by the request handlers are       *)
(* strings.                                                                *)
(***************************************************************************)
EXTENDS Naturals, Sequences, FiniteSets, Bags, TLC

VARIABLES
    \* ---- startup (src/index.ts:28-69, 72-84, 448-453)
    args,                \* process.argv.slice(2)
    pcMain,              \* position of the top-level script
    argIdx,              \* index of the for-of loop over rawArgs
    flags,               \* the Set flags
    positionals,         \* the array positionals
    stderr,              \* what console.error has printed
    exitCode,            \* <<c>> once process.exit(c) is called, <<>> before
    enableWrite,
    databaseUrl,
    auth,
    db,                  \* the root Database handle
    registered,          \* names registered on the McpServer
    \* ---- serving
    databaseConnections, \* the Map databaseConnections
    constructed,         \* per database name, how many handles the cache built
    cur,                 \* the task that holds the event loop, or NoTask
    inflight,            \* bag of the tasks suspended at an await
    modified,            \* whether the database server has run a modifying query
    \* ---- parseArangoDBURI
    uri,                 \* the input string
    parsed               \* what parseArangoDBURI returned or threw

vars == <<args, pcMain, argIdx, flags, positionals, stderr, exitCode,
          enableWrite, databaseUrl, auth, db, registered,
          databaseConnections, constructed, cur, inflight, modified,
          uri, parsed>>

startupVars == <<args, pcMain, argIdx, flags, positionals, stderr, exitCode,
                 enableWrite, databaseUrl, auth, db, registered>>
serverVars == <<databaseConnections, constructed, cur, inflight, modified>>
parseVars == <<uri, parsed>>

-----------------------------------------------------------------------------
(* Bounds of the model. *)

\* Longest argument list tried by SpecArgs.
MaxArgs == 3
\* Most requests in flight at once.
MaxReq == 2
\* Longest text after the prefix in the URIs tried by SpecParse.
MaxLen == 6

-----------------------------------------------------------------------------
(* Strings as sequences of characters. *)

\* String.prototype.startsWith
StartsWith(s, p) == Len(s) >= Len(p) /\ SubSeq(s, 1, Len(p)) = p

\* String.prototype.slice(n) for 0 <= n
Slice(s, n) == SubSeq(s, n + 1, Len(s))

\* The value undefined where a string may stand.
Undefined == <<"undefined">>

\* JavaScript truthiness of a string or undefined.
Truthy(s) == s # Undefined /\ s # <<>>

DashDash == <<"-", "-">>
EnableWriteFlag ==
    <<"-", "-", "e", "n", "a", "b", "l", "e", "-", "w", "r", "i", "t", "e">>
HelpFlag == <<"-", "-", "h", "e", "l", "p">>

\* A KNOWN_FLAGS that forgot --help.
KNOWN_FLAGS_NoHelp == {EnableWriteFlag}

KNOWN_FLAGS == {EnableWriteFlag, HelpFlag}

\* The tokens the argument lists are built from: the two known flags, two
\* unknown ones, a single-dash token, a URL, a username, a password and the
\* empty string.
Tokens ==
    { EnableWriteFlag, HelpFlag,
      <<"-", "-", "x">>, DashDash,
      <<"-", "h">>,
      <<"h", "t", "t", "p", ":", "/", "/", "h">>,
      <<"r", "o", "o", "t">>,
      <<"p", "w">>,
      <<>> }

ArgLists(n) == UNION { [1..k -> Tokens] : k \in 0..n }

-----------------------------------------------------------------------------
(* Startup. *)

\* exitCode before process.exit is called; <<c>> after process.exit(c).
NoExit == <<>>

\* The lines console.error prints.
UsageText == [text |-> "Usage", arg |-> <<>>]
UnknownFlagText(arg) == [text |-> "Unknown flag", arg |-> arg]
NoUrlText == [text |-> "Please provide a database URL", arg |-> <<>>]
ConnectErrorText == [text |-> "Error", arg |-> <<>>]

NoAuth == [present |-> FALSE, username |-> Undefined, password |-> Undefined]

\* const auth = username && password ? { username, password } : undefined
Auth(username, password) ==
    IF Truthy(username) /\ Truthy(password)
    THEN [present |-> TRUE, username |-> username, password |-> password]
    ELSE NoAuth

NoDatabase == [made |-> FALSE, url |-> Undefined, databaseName |-> "", serial |-> 0, auth |-> NoAuth]

\* new Database({url, databaseName, auth}); serial tells the instances built
\* for one name apart.
NewDatabase(url, name, serial, a) ==
    [made |-> TRUE, url |-> url, databaseName |-> name, serial |-> serial, auth |-> a]

\* A registration that exposes readWriteQuery whatever the flag.
RegisteredCapabilitiesAlways(ew) ==
    { "collectionList", "collectionRead", "documentRead", "readQuery",
      "readWriteQuery", "listDatabases", "listCollections" }

\* The names registered by lines 235-442: the two resource templates (the
\* collection template with its list callback), and the tools.
RegisteredCapabilities(ew) ==
    { "collectionList", "collectionRead", "documentRead",
      "readQuery", "listDatabases", "listCollections" }
    \cup (IF ew THEN {"readWriteQuery"} ELSE {})

\* The for-of loop, an unknown flag: message, usage, process.exit(1).
LoopUnknownFlag ==
    /\ pcMain = "loop"
    /\ argIdx <= Len(args)
    /\ StartsWith(args[argIdx], DashDash)
    /\ args[argIdx] \notin KNOWN_FLAGS
    /\ stderr' = stderr \o <<UnknownFlagText(args[argIdx]), UsageText>>
    /\ exitCode' = <<1>>
    /\ pcMain' = "exited"
    /\ UNCHANGED <<args, argIdx, flags, positionals, enableWrite, databaseUrl,
                   auth, db, registered>>
    /\ UNCHANGED <<serverVars, parseVars>>

\* The for-of loop, a known flag.
LoopKnownFlag ==
    /\ pcMain = "loop"
    /\ argIdx <= Len(args)
    /\ StartsWith(args[argIdx], DashDash)
    /\ args[argIdx] \in KNOWN_FLAGS
    /\ flags' = flags \cup {args[argIdx]}
    /\ argIdx' = argIdx + 1
    /\ UNCHANGED <<args, pcMain, positionals, stderr, exitCode, enableWrite,
                   databaseUrl, auth, db, registered>>
    /\ UNCHANGED <<serverVars, parseVars>>

\* The for-of loop, a positional.
LoopPositional ==
    /\ pcMain = "loop"
    /\ argIdx <= Len(args)
    /\ ~StartsWith(args[argIdx], DashDash)
    /\ positionals' = Append(positionals, args[argIdx])
    /\ argIdx' = argIdx + 1
    /\ UNCHANGED <<args, pcMain, flags, stderr, exitCode, enableWrite,
                   databaseUrl, auth, db, registered>>
    /\ UNCHANGED <<serverVars, parseVars>>

\* The loop is over.
LoopEnd ==
    /\ pcMain = "loop"
    /\ argIdx > Len(args)
    /\ pcMain' = "checkHelp"
    /\ UNCHANGED <<args, argIdx, flags, positionals, stderr, exitCode,
                   enableWrite, databaseUrl, auth, db, registered>>
    /\ UNCHANGED <<serverVars, parseVars>>

\* if (flags.has("--help")) printUsageAndExit(0)
HelpExit ==
    /\ pcMain = "checkHelp"
    /\ HelpFlag \in flags
    /\ stderr' = Append(stderr, UsageText)
    /\ exitCode' = <<0>>
    /\ pcMain' = "exited"
    /\ UNCHANGED <<args, argIdx, flags, positionals, enableWrite, databaseUrl,
                   auth, db, registered>>
    /\ UNCHANGED <<serverVars, parseVars>>

\* const enableWrite = flags.has("--enable-write")
SetEnableWrite ==
    /\ pcMain = "checkHelp"
    /\ HelpFlag \notin flags
    /\ enableWrite' = (EnableWriteFlag \in flags)
    /\ pcMain' = "checkUrl"
    /\ UNCHANGED <<args, argIdx, flags, positionals, stderr, exitCode,
                   databaseUrl, auth, db, registered>>
    /\ UNCHANGED <<serverVars, parseVars>>

\* if (positionals.length < 1) { ...; printUsageAndExit(1) }
NoUrlExit ==
    /\ pcMain = "checkUrl"
    /\ Len(positionals) < 1
    /\ stderr' = stderr \o <<NoUrlText, UsageText>>
    /\ exitCode' = <<1>>
    /\ pcMain' = "exited"
    /\ UNCHANGED <<args, argIdx, flags, positionals, enableWrite, databaseUrl,
                   auth, db, registered>>
    /\ UNCHANGED <<serverVars, parseVars>>

\* databaseUrl, username, password, auth and the root handle db.
Configure ==
    /\ pcMain = "checkUrl"
    /\ Len(positionals) >= 1
    /\ LET username == IF Len(positionals) > 1 THEN positionals[2] ELSE Undefined
           password == IF Len(positionals) > 2 THEN positionals[3] ELSE Undefined
       IN /\ databaseUrl' = positionals[1]
          /\ auth' = Auth(username, password)
          /\ db' = NewDatabase(positionals[1], "", 0, Auth(username, password))
    /\ pcMain' = "register"
    /\ UNCHANGED <<args, argIdx, flags, positionals, stderr, exitCode,
                   enableWrite, registered>>
    /\ UNCHANGED <<serverVars, parseVars>>

\* new McpServer and every registerResource and registerTool.
Register ==
    /\ pcMain = "register"
    /\ registered' = RegisteredCapabilities(enableWrite)
    /\ pcMain' = "connect"
    /\ UNCHANGED <<args, argIdx, flags, positionals, stderr, exitCode,
                   enableWrite, databaseUrl, auth, db>>
    /\ UNCHANGED <<serverVars, parseVars>>

\* runServer: server.connect(transport) resolves; requests are served from
\* here on.
Connect ==
    /\ pcMain = "connect"
    /\ pcMain' = "serving"
    /\ UNCHANGED <<args, argIdx, flags, positionals, stderr, exitCode,
                   enableWrite, databaseUrl, auth, db, registered>>
    /\ UNCHANGED <<serverVars, parseVars>>

\* runServer: server.connect(transport) rejects; .catch(console.error) prints
\* the error, nothing is served, and the process ends without process.exit.
ConnectRejects ==
    /\ pcMain = "connect"
    /\ stderr' = Append(stderr, ConnectErrorText)
    /\ pcMain' = "ended"
    /\ UNCHANGED <<args, argIdx, flags, positionals, exitCode,
                   enableWrite, databaseUrl, auth, db, registered>>
    /\ UNCHANGED <<serverVars, parseVars>>

NextStartup ==
    \/ LoopUnknownFlag
    \/ LoopKnownFlag
    \/ LoopPositional
    \/ LoopEnd
    \/ HelpExit
    \/ SetEnableWrite
    \/ NoUrlExit
    \/ Configure
    \/ Register
    \/ Connect
    \/ ConnectRejects

-----------------------------------------------------------------------------
(* parseArangoDBURI. *)

Prefix == <<"a", "r", "a", "n", "g", "o", "d", "b", ":", "/", "/", "/">>

\* A split that drops trailing empty components, as split does in some
\* other languages.
RECURSIVE SplitDropTrailing(_)
SplitDropTrailing(s) ==
    IF s = <<>> THEN <<>>
    ELSE IF \E i \in 1..Len(s) : s[i] = "/"
    THEN LET i == CHOOSE j \in 1..Len(s) :
                      s[j] = "/" /\ \A k \in 1..(j - 1) : s[k] # "/"
             rest == SplitDropTrailing(SubSeq(s, i + 1, Len(s)))
         IN IF rest = <<>> /\ i = 1 THEN <<>>
            ELSE <<SubSeq(s, 1, i - 1)>> \o rest
    ELSE <<s>>

\* String.prototype.split("/"): the pieces between the separators, empty
\* ones kept; the empty string splits into one empty piece.
RECURSIVE Split(_)
Split(s) ==
    IF \E i \in 1..Len(s) : s[i] = "/"
    THEN LET i == CHOOSE j \in 1..Len(s) :
                      s[j] = "/" /\ \A k \in 1..(j - 1) : s[k] # "/"
         IN <<SubSeq(s, 1, i - 1)>> \o Split(SubSeq(s, i + 1, Len(s)))
    ELSE <<s>>

NotParsed ==
    [type |-> "none", databaseName |-> Undefined, collectionName |-> Undefined,
     documentId |-> Undefined, message |-> ""]

\* throw new InvalidArangoDBURIError(message)
InvalidArangoDBURIError(message) ==
    [type |-> "InvalidArangoDBURIError", databaseName |-> Undefined,
     collectionName |-> Undefined, documentId |-> Undefined,
     message |-> message]

CollectionURI(d, c) ==
    [type |-> "collection", databaseName |-> d, collectionName |-> c,
     documentId |-> Undefined, message |-> ""]

DocumentURI(d, c, id) ==
    [type |-> "document", databaseName |-> d, collectionName |-> c,
     documentId |-> id, message |-> ""]

parseArangoDBURI(u) ==
    IF ~StartsWith(u, Prefix)
    THEN InvalidArangoDBURIError("URI must start with \"arangodb:///\"")
    ELSE
      LET path == Slice(u, Len(Prefix))
          components == Split(path)
          \* destructuring: a missing element is undefined
          databaseName == components[1]
          collectionName == components[2]
          documentId == IF Len(components) >= 3 THEN components[3] ELSE Undefined
      IN IF Len(components) < 2 \/ Len(components) > 3
         THEN InvalidArangoDBURIError(
                "URI must have 2 or 3 components: databaseName/collectionName[/documentId]")
         ELSE IF ~Truthy(databaseName)
         THEN InvalidArangoDBURIError("Database name cannot be empty")
         ELSE IF ~Truthy(collectionName)
         THEN InvalidArangoDBURIError("Collection name cannot be empty")
         ELSE IF Len(components) = 2
         THEN CollectionURI(databaseName, collectionName)
         ELSE IF ~Truthy(documentId)
         THEN InvalidArangoDBURIError("Document ID cannot be empty")
         ELSE DocumentURI(databaseName, collectionName, documentId)

\* The characters the tried URIs are written in.
UriChars == {"a", "b", "/"}

Strings(n) == UNION { [1..k -> UriChars] : k \in 0..n }

\* The inputs tried: every text of at most MaxLen characters behind the
\* prefix, behind the prefix short of its last slash, behind another scheme,
\* and alone.
UriInputs ==
    LET heads == { Prefix, SubSeq(Prefix, 1, Len(Prefix) - 1),
                   <<"f", "o", "o", ":", "/", "/", "/">>, <<>> }
    IN { h \o t : h \in heads, t \in Strings(MaxLen) }

\* One call of parseArangoDBURI on the input.
Parse ==
    /\ parsed = NotParsed
    /\ parsed' = parseArangoDBURI(uri)
    /\ UNCHANGED uri
    /\ UNCHANGED <<startupVars, serverVars>>

NextParse == Parse

-----------------------------------------------------------------------------
(* Serving: the connection cache and the handlers.                         *)
(*                                                                         *)
(* JavaScript runs one task at a time and to completion: cur is the task   *)
(* that holds the event loop, and a task leaves it only at an await (it    *)
(* joins inflight) or when its handler has returned or thrown.  A          *)
(* continuation starts only when the event loop is free.  Every await is   *)
(* a suspension, that of an async function of the program too: the caller  *)
(* of getCollections resumes in a later job than the one in which          *)
(* getCollections settles, and other continuations may run in between.     *)

\* What db.databases() may answer, in the server's order.
DatabaseListings == { <<"_system">>, <<"_system", "a", "b">> }

\* databaseName inputs of the tools: z.string() accepts any string.
ToolDatabaseNames == {"", "a"}

\* {database} of a resource URI matched by the template: never empty.
ResourceDatabaseNames == {"a", "b"}

\* The queries given to readQuery and readWriteQuery: one that only reads,
\* one that modifies data.
Queries == {"read", "write"}

\* What the cursor of the COLLECTIONS() query may hold; a row is well formed
\* when it has exactly the string fields _id and name.
GoodRow(name) == [wellFormed |-> TRUE, name |-> name]
BadRow == [wellFormed |-> FALSE, name |-> "c2"]
CollectionRows ==
    { <<GoodRow("c1"), GoodRow("c2")>>, <<GoodRow("c1"), BadRow>> }

EmptyMap == [n \in {} |-> NoDatabase]

NoTask ==
    [kind |-> "none", db |-> "", aql |-> "", pc |-> "none", conn |-> NoDatabase,
     count |-> "none", query |-> "none", listing |-> <<>>, todo |-> <<>>,
     branches |-> <<>>, result |-> <<>>, error |-> "", errorLogged |-> FALSE]

\* A handler entered with its arguments.
NewTask(kind, name, aql, pc) ==
    [NoTask EXCEPT !.kind = kind, !.db = name, !.aql = aql, !.pc = pc]

CanDispatch(kind) ==
    /\ pcMain = "serving"
    /\ kind \in registered
    /\ cur = NoTask
    /\ BagCardinality(inflight) < MaxReq

\* readQuery: debug, then getOrCreateDatabaseConnection(databaseName).
CallReadQuery ==
    /\ CanDispatch("readQuery")
    /\ \E name \in ToolDatabaseNames, q \in Queries :
         cur' = NewTask("readQuery", name, q, "lookup")
    /\ UNCHANGED <<databaseConnections, constructed, inflight, modified>>
    /\ UNCHANGED <<startupVars, parseVars>>

\* readWriteQuery, when it is registered.
CallReadWriteQuery ==
    /\ CanDispatch("readWriteQuery")
    /\ \E name \in ToolDatabaseNames, q \in Queries :
         cur' = NewTask("readWriteQuery", name, q, "lookup")
    /\ UNCHANGED <<databaseConnections, constructed, inflight, modified>>
    /\ UNCHANGED <<startupVars, parseVars>>

\* listDatabases: debug, then db.databases().
CallListDatabases ==
    /\ CanDispatch("listDatabases")
    /\ inflight' = inflight (+) SetToBag({NewTask("listDatabases", "", "", "await_databases")})
    /\ UNCHANGED <<databaseConnections, constructed, cur, modified>>
    /\ UNCHANGED <<startupVars, parseVars>>

\* listCollections.
CallListCollections ==
    /\ CanDispatch("listCollections")
    /\ \E name \in ToolDatabaseNames :
         cur' = NewTask("listCollections", name, "read", "lookup")
    /\ UNCHANGED <<databaseConnections, constructed, inflight, modified>>
    /\ UNCHANGED <<startupVars, parseVars>>

\* The read callback of the collection template.
ReadCollection ==
    /\ CanDispatch("collectionRead")
    /\ \E name \in ResourceDatabaseNames :
         cur' = NewTask("collectionRead", name, "read", "lookup")
    /\ UNCHANGED <<databaseConnections, constructed, inflight, modified>>
    /\ UNCHANGED <<startupVars, parseVars>>

\* The read callback of the document template.
ReadDocument ==
    /\ CanDispatch("documentRead")
    /\ \E name \in ResourceDatabaseNames :
         cur' = NewTask("documentRead", name, "", "lookup")
    /\ UNCHANGED <<databaseConnections, constructed, inflight, modified>>
    /\ UNCHANGED <<startupVars, parseVars>>

\* The list callback of the collection template: debug, then db.databases().
ListCollectionResources ==
    /\ CanDispatch("collectionList")
    /\ inflight' = inflight (+) SetToBag({NewTask("collectionList", "", "read", "await_databases")})
    /\ UNCHANGED <<databaseConnections, constructed, cur, modified>>
    /\ UNCHANGED <<startupVars, parseVars>>

\* The name a task is about to give getOrCreateDatabaseConnection.
LookupName(t) == IF t.kind = "collectionList" THEN Head(t.todo) ELSE t.db

\* A has() that never finds an entry.
CacheHasNever(name) == FALSE

\* databaseConnections.has(databaseName)
CacheHas(name) == name \in DOMAIN databaseConnections

\* The await a handler reaches once getOrCreateDatabaseConnection has
\* returned: the query, Promise.all of the count and the sample query, or
\* the document.
FirstAwait(t) ==
    CASE t.kind \in {"readQuery", "readWriteQuery", "listCollections"} ->
            [t EXCEPT !.pc = "await_query"]
      [] t.kind = "collectionRead" ->
            [t EXCEPT !.pc = "await_all", !.count = "pending", !.query = "pending"]
      [] t.kind = "documentRead" -> [t EXCEPT !.pc = "await_document"]

\* The task once getOrCreateDatabaseConnection has returned h.  The list
\* callback calls it once per user database, each call followed by the query
\* of getCollections, all in one run of the map; after the last it awaits
\* Promise.all.  Every other handler issues its database call and awaits it.
AfterLookup(t, h) ==
    IF t.kind = "collectionList"
    THEN [t EXCEPT !.branches =
                      Append(@, [database |-> Head(t.todo), conn |-> h,
                                 pc |-> "await_query", collections |-> <<>>,
                                 error |-> ""]),
                   !.todo = Tail(@),
                   !.pc = IF Tail(t.todo) = <<>> THEN "await_branches"
                          ELSE "lookup"]
    ELSE FirstAwait([t EXCEPT !.conn = h])

\* The running task goes on as t2: it keeps the event loop for its next
\* lookup, or leaves it at its await.
Continue(t2) ==
    IF t2.pc = "lookup"
    THEN cur' = t2 /\ UNCHANGED inflight
    ELSE cur' = NoTask /\ inflight' = inflight (+) SetToBag({t2})

\* getOrCreateDatabaseConnection, the entry is there: return it.
CacheHit ==
    /\ cur.pc = "lookup"
    /\ CacheHas(LookupName(cur))
    /\ Continue(AfterLookup(cur, databaseConnections[LookupName(cur)]))
    /\ UNCHANGED <<databaseConnections, constructed, modified>>
    /\ UNCHANGED <<startupVars, parseVars>>

\* getOrCreateDatabaseConnection, no entry: go on to build one.  The function
\* is synchronous: the task keeps the event loop from has() to set().
CacheMiss ==
    /\ cur.pc = "lookup"
    /\ ~CacheHas(LookupName(cur))
    /\ cur' = [cur EXCEPT !.pc = "construct"]
    /\ UNCHANGED <<databaseConnections, constructed, inflight, modified>>
    /\ UNCHANGED <<startupVars, parseVars>>

\* A creation that builds the handle and forgets databaseConnections.set.
CacheCreateNoStore ==
    /\ cur.pc = "construct"
    /\ LET name == LookupName(cur)
           h == NewDatabase(databaseUrl, name, constructed[name] + 1, auth)
       IN /\ constructed' = [constructed EXCEPT ![name] = @ + 1]
          /\ Continue(AfterLookup(cur, h))
    /\ UNCHANGED <<databaseConnections, modified>>
    /\ UNCHANGED <<startupVars, parseVars>>

\* new Database({url, databaseName, auth}), databaseConnections.set, return.
CacheCreate ==
    /\ cur.pc = "construct"
    /\ LET name == LookupName(cur)
           h == NewDatabase(databaseUrl, name, constructed[name] + 1, auth)
       IN /\ databaseConnections' =
                [n \in DOMAIN databaseConnections \cup {name} |->
                    IF n = name THEN h ELSE databaseConnections[n]]
          /\ constructed' = [constructed EXCEPT ![name] = @ + 1]
          /\ Continue(AfterLookup(cur, h))
    /\ UNCHANGED modified
    /\ UNCHANGED <<startupVars, parseVars>>

\* The handler returns result; its arguments and its handle go out of scope.
Returned(t, result) ==
    [t EXCEPT !.pc = "returned", !.result = result,
              !.db = "", !.aql = "", !.conn = NoDatabase]

\* The handler throws e.
Threw(t, e) ==
    [t EXCEPT !.pc = "threw", !.error = e, !.result = <<>>,
              !.db = "", !.aql = "", !.conn = NoDatabase]

\* The capability layer has the handler's outcome and answers the request.
Respond ==
    /\ cur.pc \in {"returned", "threw"}
    /\ cur' = NoTask
    /\ UNCHANGED <<databaseConnections, constructed, inflight, modified>>
    /\ UNCHANGED <<startupVars, parseVars>>

\* One suspended task t replaced by t2 in the bag.
Replace(t, t2) == (inflight (-) SetToBag({t})) (+) SetToBag({t2})

Remove(t) == inflight (-) SetToBag({t})

\* dbConnector.query(aql) resolves in readQuery, readWriteQuery and
\* getCollections (listCollections): the server has run the query, a
\* modifying one has modified data; the handler goes on to await cursor.all().
QueryResolves ==
    /\ cur = NoTask
    /\ \E t \in BagToSet(inflight) :
         /\ t.pc = "await_query"
         /\ modified' = (modified \/ t.aql = "write")
         /\ inflight' = Replace(t, [t EXCEPT !.pc = "await_cursor"])
    /\ UNCHANGED <<databaseConnections, constructed, cur>>
    /\ UNCHANGED <<startupVars, parseVars>>

\* A database call awaited by t rejects with e and nothing catches it.  In
\* listCollections the call is awaited inside getCollections: getCollections
\* throws, and the handler awaiting it resumes in a later job.  In the other
\* handlers the handler itself throws.
Rejects(t, e) ==
    IF t.kind = "listCollections"
    THEN /\ inflight' = Replace(t, [t EXCEPT !.pc = "await_collections",
                                             !.error = e])
         /\ UNCHANGED cur
    ELSE /\ inflight' = Remove(t)
         /\ cur' = Threw(t, e)

\* dbConnector.query(aql) rejects.
QueryRejects ==
    /\ cur = NoTask
    /\ \E t \in BagToSet(inflight) :
         /\ t.pc = "await_query"
         /\ Rejects(t, "ArangoError")
    /\ UNCHANGED <<databaseConnections, constructed, modified>>
    /\ UNCHANGED <<startupVars, parseVars>>

\* cursor.all() resolves in readQuery, readWriteQuery and the collection
\* read: the handler returns the JSON text.
CursorResolves ==
    /\ cur = NoTask
    /\ \E t \in BagToSet(inflight) :
         /\ t.pc = "await_cursor"
         /\ t.kind \in {"readQuery", "readWriteQuery", "collectionRead"}
         /\ inflight' = Remove(t)
         /\ cur' = Returned(t, <<"json">>)
    /\ UNCHANGED <<databaseConnections, constructed, modified>>
    /\ UNCHANGED <<startupVars, parseVars>>

\* collectionSchema.parse of every row, in order: the names, or the ZodError
\* of the first malformed row.
AllWellFormed(rows) == \A i \in 1..Len(rows) : rows[i].wellFormed

Names(rows) == [i \in 1..Len(rows) |-> rows[i].name]

\* cursor.all() resolves in getCollections called by listCollections: the
\* rows are parsed and getCollections returns the collections or throws the
\* ZodError; the handler, suspended at await getCollections(dbConnector),
\* resumes in a later job.
CollectionsCursorResolves ==
    /\ cur = NoTask
    /\ \E t \in BagToSet(inflight), rows \in CollectionRows :
         /\ t.pc = "await_cursor"
         /\ t.kind = "listCollections"
         /\ inflight' = Replace(t,
                IF AllWellFormed(rows)
                THEN [t EXCEPT !.pc = "await_collections", !.result = Names(rows)]
                ELSE [t EXCEPT !.pc = "await_collections", !.error = "ZodError"])
    /\ UNCHANGED <<databaseConnections, constructed, cur, modified>>
    /\ UNCHANGED <<startupVars, parseVars>>

\* listCollections resumes after await getCollections(dbConnector): it returns
\* the names, or throws what getCollections threw.
CollectionsReturn ==
    /\ cur = NoTask
    /\ \E t \in BagToSet(inflight) :
         /\ t.pc = "await_collections"
         /\ t.kind = "listCollections"
         /\ inflight' = Remove(t)
         /\ cur' = IF t.error = "" THEN Returned(t, t.result)
                   ELSE Threw(t, t.error)
    /\ UNCHANGED <<databaseConnections, constructed, modified>>
    /\ UNCHANGED <<startupVars, parseVars>>

\* cursor.all() rejects.
CursorRejects ==
    /\ cur = NoTask
    /\ \E t \in BagToSet(inflight) :
         /\ t.pc = "await_cursor"
         /\ Rejects(t, "ArangoError")
    /\ UNCHANGED <<databaseConnections, constructed, modified>>
    /\ UNCHANGED <<startupVars, parseVars>>

\* allDatabases.filter(d => d.name !== "_system")
UserDatabases(listing) == SelectSeq(listing, LAMBDA d : d # "_system")

\* db.databases() resolves in listDatabases: the handler returns the names.
DatabasesResolve ==
    /\ cur = NoTask
    /\ \E t \in BagToSet(inflight), listing \in DatabaseListings :
         /\ t.pc = "await_databases"
         /\ t.kind = "listDatabases"
         /\ inflight' = Remove(t)
         /\ cur' = Returned(t, listing)
    /\ UNCHANGED <<databaseConnections, constructed, modified>>
    /\ UNCHANGED <<startupVars, parseVars>>

\* db.databases() resolves in the list callback: the map over the user
\* databases starts.  With no user database the map is empty and the callback
\* suspends at await Promise.all([]).
ListingDatabasesResolve ==
    /\ cur = NoTask
    /\ \E t \in BagToSet(inflight), listing \in DatabaseListings :
         /\ t.pc = "await_databases"
         /\ t.kind = "collectionList"
         /\ IF UserDatabases(listing) = <<>>
            THEN /\ inflight' = Replace(t, [t EXCEPT !.listing = listing,
                                                     !.pc = "await_branches"])
                 /\ UNCHANGED cur
            ELSE /\ inflight' = Remove(t)
                 /\ cur' = [t EXCEPT !.listing = listing,
                                     !.todo = UserDatabases(listing),
                                     !.pc = "lookup"]
    /\ UNCHANGED <<databaseConnections, constructed, modified>>
    /\ UNCHANGED <<startupVars, parseVars>>

\* db.databases() rejects, in listDatabases or in the list callback.
DatabasesReject ==
    /\ cur = NoTask
    /\ \E t \in BagToSet(inflight) :
         /\ t.pc = "await_databases"
         /\ inflight' = Remove(t)
         /\ cur' = Threw(t, "ArangoError")
    /\ UNCHANGED <<databaseConnections, constructed, modified>>
    /\ UNCHANGED <<startupVars, parseVars>>

\* collection(c).document(id) resolves: the handler returns the document.
DocumentResolves ==
    /\ cur = NoTask
    /\ \E t \in BagToSet(inflight) :
         /\ t.pc = "await_document"
         /\ inflight' = Remove(t)
         /\ cur' = Returned(t, <<"json">>)
    /\ UNCHANGED <<databaseConnections, constructed, modified>>
    /\ UNCHANGED <<startupVars, parseVars>>

\* collection(c).document(id) rejects: catch, error(...), throw err.
DocumentRejects ==
    /\ cur = NoTask
    /\ \E t \in BagToSet(inflight) :
         /\ t.pc = "await_document"
         /\ inflight' = Remove(t)
         /\ cur' = Threw([t EXCEPT !.errorLogged = TRUE], "ArangoError")
    /\ UNCHANGED <<databaseConnections, constructed, modified>>
    /\ UNCHANGED <<startupVars, parseVars>>

\* Promise.all([count, query]) of the collection read, given the state of
\* its two calls: on to cursor.all() when both are in, pending otherwise.
AfterBoth(t) ==
    IF t.count = "ok" /\ t.query = "ok" THEN [t EXCEPT !.pc = "await_cursor"]
    ELSE t

\* collectionHandle.count() resolves.
CountResolves ==
    /\ cur = NoTask
    /\ \E t \in BagToSet(inflight) :
         /\ t.pc = "await_all"
         /\ t.count = "pending"
         /\ inflight' = Replace(t, AfterBoth([t EXCEPT !.count = "ok"]))
    /\ UNCHANGED <<databaseConnections, constructed, cur, modified>>
    /\ UNCHANGED <<startupVars, parseVars>>

\* collectionHandle.count() rejects: Promise.all rejects, the handler throws.
CountRejects ==
    /\ cur = NoTask
    /\ \E t \in BagToSet(inflight) :
         /\ t.pc = "await_all"
         /\ t.count = "pending"
         /\ inflight' = Remove(t)
         /\ cur' = Threw([t EXCEPT !.count = "failed"], "ArangoError")
    /\ UNCHANGED <<databaseConnections, constructed, modified>>
    /\ UNCHANGED <<startupVars, parseVars>>

\* The sample query of the collection read resolves.
SampleQueryResolves ==
    /\ cur = NoTask
    /\ \E t \in BagToSet(inflight) :
         /\ t.pc = "await_all"
         /\ t.query = "pending"
         /\ inflight' = Replace(t, AfterBoth([t EXCEPT !.query = "ok"]))
    /\ UNCHANGED <<databaseConnections, constructed, cur, modified>>
    /\ UNCHANGED <<startupVars, parseVars>>

\* The sample query of the collection read rejects.
SampleQueryRejects ==
    /\ cur = NoTask
    /\ \E t \in BagToSet(inflight) :
         /\ t.pc = "await_all"
         /\ t.query = "pending"
         /\ inflight' = Remove(t)
         /\ cur' = Threw([t EXCEPT !.query = "failed"], "ArangoError")
    /\ UNCHANGED <<databaseConnections, constructed, modified>>
    /\ UNCHANGED <<startupVars, parseVars>>

\* The resource entries of one database's collections.
ResourcesOf(b) ==
    [i \in 1..Len(b.collections) |->
        [uri |-> "arangodb:///" \o b.database \o "/" \o b.collections[i],
         name |-> b.database \o "/" \o b.collections[i]]]

\* collectionsPerDb.flatMap(...)
RECURSIVE FlatMap(_)
FlatMap(branches) ==
    IF branches = <<>> THEN <<>>
    ELSE ResourcesOf(Head(branches)) \o FlatMap(Tail(branches))

\* A gathering that leaves out the branches that failed.
GatherSettled(branches) ==
    IF \A i \in 1..Len(branches) : branches[i].pc \in {"done", "failed"}
    THEN "fulfilled"
    ELSE "pending"

\* Promise.all over the promises of the map callbacks: rejected as soon as
\* one has rejected, fulfilled when every one has fulfilled (at once for an
\* empty array).
Gather(branches) ==
    IF \E i \in 1..Len(branches) : branches[i].pc = "failed" THEN "rejected"
    ELSE IF \A i \in 1..Len(branches) : branches[i].pc = "done" THEN "fulfilled"
    ELSE "pending"

\* No code of branch b is left to run.
Ended(b) == b.pc \in {"done", "failed"}

\* The branches run whether or not the callback is still waiting for them:
\* Promise.all rejects on the first failure and the callback throws, and the
\* other branches go on with their handles until they end.
HasBranches(t) == t.pc \in {"await_branches", "answered"}

\* The branches of t that go on after the callback has thrown: they keep
\* their handles; what they compute is no longer read by anyone.
Orphans(t) ==
    [t EXCEPT !.pc = "answered", !.listing = <<>>, !.error = "",
              !.branches = [i \in 1..Len(t.branches) |->
                               [t.branches[i] EXCEPT !.collections = <<>>]]]

\* Task t after one of its branches has moved: the record leaves the bag
\* when the callback has thrown and its last branch has ended.
ListingStep(t, t2) ==
    /\ inflight' = IF t2.pc = "answered"
                   THEN IF \A i \in 1..Len(t2.branches) : Ended(t2.branches[i])
                        THEN Remove(t)
                        ELSE Replace(t, Orphans(t2))
                   ELSE Replace(t, t2)
    /\ UNCHANGED cur

\* In one branch, db.query of getCollections resolves: on to cursor.all().
BranchQueryResolves ==
    /\ cur = NoTask
    /\ \E t \in BagToSet(inflight) :
         /\ HasBranches(t)
         /\ \E i \in 1..Len(t.branches) :
              /\ t.branches[i].pc = "await_query"
              /\ ListingStep(t, [t EXCEPT !.branches[i].pc = "await_cursor"])
    /\ UNCHANGED <<databaseConnections, constructed, modified>>
    /\ UNCHANGED <<startupVars, parseVars>>

\* In one branch, db.query rejects: getCollections throws.
BranchQueryRejects ==
    /\ cur = NoTask
    /\ \E t \in BagToSet(inflight) :
         /\ HasBranches(t)
         /\ \E i \in 1..Len(t.branches) :
              /\ t.branches[i].pc = "await_query"
              /\ ListingStep(t, [t EXCEPT !.branches[i].pc = "await_collections",
                                          !.branches[i].error = "ArangoError"])
    /\ UNCHANGED <<databaseConnections, constructed, modified>>
    /\ UNCHANGED <<startupVars, parseVars>>

\* In one branch, cursor.all() resolves: the rows are parsed and
\* getCollections returns the collections or throws the ZodError.
BranchCursorResolves ==
    /\ cur = NoTask
    /\ \E t \in BagToSet(inflight), rows \in CollectionRows :
         /\ HasBranches(t)
         /\ \E i \in 1..Len(t.branches) :
              /\ t.branches[i].pc = "await_cursor"
              /\ ListingStep(t,
                    IF AllWellFormed(rows)
                    THEN [t EXCEPT !.branches[i].pc = "await_collections",
                                   !.branches[i].collections = Names(rows)]
                    ELSE [t EXCEPT !.branches[i].pc = "await_collections",
                                   !.branches[i].error = "ZodError"])
    /\ UNCHANGED <<databaseConnections, constructed, modified>>
    /\ UNCHANGED <<startupVars, parseVars>>

\* In one branch, cursor.all() rejects: getCollections throws.
BranchCursorRejects ==
    /\ cur = NoTask
    /\ \E t \in BagToSet(inflight) :
         /\ HasBranches(t)
         /\ \E i \in 1..Len(t.branches) :
              /\ t.branches[i].pc = "await_cursor"
              /\ ListingStep(t, [t EXCEPT !.branches[i].pc = "await_collections",
                                          !.branches[i].error = "ArangoError"])
    /\ UNCHANGED <<databaseConnections, constructed, modified>>
    /\ UNCHANGED <<startupVars, parseVars>>

\* In one branch, the map callback resumes after await getCollections: it
\* returns {database, collections} or throws what getCollections threw.
BranchReturns ==
    /\ cur = NoTask
    /\ \E t \in BagToSet(inflight) :
         /\ HasBranches(t)
         /\ \E i \in 1..Len(t.branches) :
              /\ t.branches[i].pc = "await_collections"
              /\ ListingStep(t, [t EXCEPT !.branches[i].pc = "settled"])
    /\ UNCHANGED <<databaseConnections, constructed, modified>>
    /\ UNCHANGED <<startupVars, parseVars>>

\* Promise.all takes the outcome of one map callback, in a job of its own;
\* the first rejection it takes is the error it rejects with.
BranchGathered ==
    /\ cur = NoTask
    /\ \E t \in BagToSet(inflight) :
         /\ HasBranches(t)
         /\ \E i \in 1..Len(t.branches) :
              /\ t.branches[i].pc = "settled"
              /\ ListingStep(t,
                    IF t.branches[i].error = ""
                    THEN [t EXCEPT !.branches[i].pc = "done"]
                    ELSE [t EXCEPT !.branches[i].pc = "failed",
                                   !.error = IF Gather(t.branches) = "pending"
                                             THEN t.branches[i].error ELSE @])
    /\ UNCHANGED <<databaseConnections, constructed, modified>>
    /\ UNCHANGED <<startupVars, parseVars>>

\* The list callback resumes after await Promise.all: flatMap and return, or
\* throw the error Promise.all rejected with.
ListingResumes ==
    /\ cur = NoTask
    /\ \E t \in BagToSet(inflight) :
         /\ t.pc = "await_branches"
         /\ Gather(t.branches) # "pending"
         /\ IF Gather(t.branches) = "fulfilled"
            THEN /\ inflight' = Remove(t)
                 /\ cur' = Returned(t, FlatMap(SelectSeq(t.branches,
                                         LAMBDA b : b.pc = "done")))
            ELSE /\ inflight' = IF \A i \in 1..Len(t.branches) : Ended(t.branches[i])
                                THEN Remove(t)
                                ELSE Replace(t, Orphans(t))
                 /\ cur' = Threw(t, t.error)
    /\ UNCHANGED <<databaseConnections, constructed, modified>>
    /\ UNCHANGED <<startupVars, parseVars>>

NextServing ==
    \/ CallReadQuery
    \/ CallReadWriteQuery
    \/ CallListDatabases
    \/ CallListCollections
    \/ ReadCollection
    \/ ReadDocument
    \/ ListCollectionResources
    \/ CacheHit
    \/ CacheMiss
    \/ CacheCreate
    \/ Respond
    \/ QueryResolves
    \/ QueryRejects
    \/ CursorResolves
    \/ CollectionsCursorResolves
    \/ CollectionsReturn
    \/ CursorRejects
    \/ DatabasesResolve
    \/ ListingDatabasesResolve
    \/ DatabasesReject
    \/ DocumentResolves
    \/ DocumentRejects
    \/ CountResolves
    \/ CountRejects
    \/ SampleQueryResolves
    \/ SampleQueryRejects
    \/ BranchQueryResolves
    \/ BranchQueryRejects
    \/ BranchCursorResolves
    \/ BranchCursorRejects
    \/ BranchReturns
    \/ BranchGathered
    \/ ListingResumes

-----------------------------------------------------------------------------
(* Specifications. *)

\* The argument lists the serving specification starts from: without and
\* with --enable-write, with a lone username and with both credentials, and
\* one list for each way startup exits.
ServerArgLists ==
    LET url == <<"h", "t", "t", "p", ":", "/", "/", "h">>
        user == <<"r", "o", "o", "t">>
        pw == <<"p", "w">>
    IN { <<url, user>>,
         <<EnableWriteFlag, url, user, pw>>,
         <<<<"-", "-", "x">>, url>>,
         <<url, HelpFlag>>,
         <<EnableWriteFlag>> }

InitWith(lists, inputs) ==
    /\ args \in lists
    /\ pcMain = "loop"
    /\ argIdx = 1
    /\ flags = {}
    /\ positionals = <<>>
    /\ stderr = <<>>
    /\ exitCode = NoExit
    /\ enableWrite = FALSE
    /\ databaseUrl = Undefined
    /\ auth = NoAuth
    /\ db = NoDatabase
    /\ registered = {}
    /\ databaseConnections = EmptyMap
    /\ constructed = [n \in ToolDatabaseNames \cup ResourceDatabaseNames |-> 0]
    /\ cur = NoTask
    /\ inflight = EmptyBag
    /\ modified = FALSE
    /\ uri \in inputs
    /\ parsed = NotParsed

\* The server: startup from a few argument lists, then requests.
Init == InitWith(ServerArgLists, {<<>>})

Next == NextStartup \/ NextServing

Spec == Init /\ [][Next]_vars

\* Startup alone, from every argument list of at most MaxArgs tokens.
InitArgs == InitWith(ArgLists(MaxArgs), {<<>>})

SpecArgs == InitArgs /\ [][NextStartup]_vars

\* parseArangoDBURI alone, on every tried input.
InitParse == InitWith({<<>>}, UriInputs)

SpecParse == InitParse /\ [][NextParse]_vars

-----------------------------------------------------------------------------
(* Definitions shared by the properties. *)

Range(f) == { f[i] : i \in DOMAIN f }

\* Every task: the one running and the suspended ones.
Tasks == BagToSet(inflight) \cup (IF cur = NoTask THEN {} ELSE {cur})

\* The <<name, handle>> pairs of the getOrCreateDatabaseConnection calls
\* whose result task t holds.
Lookups(t) ==
    IF t.kind = "collectionList"
    THEN { <<b.database, b.conn>> : b \in Range(t.branches) }
    ELSE IF t.conn.made THEN { <<t.db, t.conn>> } ELSE {}

Held == UNION { Lookups(t) : t \in Tasks }

Entries == { <<n, databaseConnections[n]>> : n \in DOMAIN databaseConnections }

\* Two different requests among the suspended ones (two equal records count
\* when the bag holds two copies).
TwoRequests(t1, t2) ==
    /\ t1 \in BagToSet(inflight)
    /\ t2 \in BagToSet(inflight)
    /\ (t1 # t2 \/ CopiesIn(t1, inflight) >= 2)

FlagGiven == \E i \in 1..Len(args) : args[i] = EnableWriteFlag

-----------------------------------------------------------------------------
(* C1 *)

C1_CacheInv ==
    /\ \A n \in DOMAIN constructed : constructed[n] <= 1
    /\ \A n \in DOMAIN constructed :
          (n \in DOMAIN databaseConnections) <=> (constructed[n] = 1)
    /\ \A p \in Held :
          /\ p[1] \in DOMAIN databaseConnections
          /\ databaseConnections[p[1]] = p[2]
    /\ \A p \in Held \cup Entries, q \in Held \cup Entries :
          (p[2] = q[2]) <=> (p[1] = q[1])

C1_EntryKept ==
    \A n \in DOMAIN databaseConnections :
        /\ n \in DOMAIN databaseConnections'
        /\ databaseConnections'[n] = databaseConnections[n]

\* C1: the connection cache is a write-once map.  In every reachable state
\* at most one handle has been constructed per database name, a name has an
\* entry exactly when a handle was constructed for it, every handle a request
\* got from getOrCreateDatabaseConnection is the entry stored under the name
\* it asked for, and two obtained or stored handles are the same instance
\* exactly when their names are equal; and no step removes or replaces an
\* entry.
C1_CacheWriteOnce == []C1_CacheInv /\ [][C1_EntryKept]_vars

\* Two different suspended requests hold the handle of one name while the
\* cache holds a second entry.
C1_Witness ==
    /\ Cardinality(DOMAIN databaseConnections) >= 2
    /\ \E t1 \in BagToSet(inflight), t2 \in BagToSet(inflight) :
          /\ t1 # t2
          /\ t1.conn.made
          /\ t2.conn.made
          /\ t1.db = t2.db
          /\ t1.conn = t2.conn

-----------------------------------------------------------------------------
(* C2 *)

\* C2 as stated, read over every pair of requests it describes: whenever two
\* requests are in flight together and both have looked up one database
\* name, two handles have been constructed for that name and the two
\* requests hold different ones.
C2_LostUpdate ==
    \A t1 \in BagToSet(inflight), t2 \in BagToSet(inflight) :
        TwoRequests(t1, t2) =>
            \A p \in Lookups(t1), q \in Lookups(t2) :
                p[1] = q[1] => (p[2] # q[2] /\ constructed[p[1]] >= 2)

\* C2 amended: the check-then-create sequence runs without interleaving.  No
\* request is ever suspended between has() and set(); when a request builds
\* a handle the name still has no entry and no handle; and any two lookups
\* of one name, by requests in flight together or not, got the same handle.
C2_NoLostUpdate ==
    /\ \A t \in BagToSet(inflight) : t.pc \notin {"lookup", "construct"}
    /\ cur.pc = "construct" =>
          /\ LookupName(cur) \notin DOMAIN databaseConnections
          /\ constructed[LookupName(cur)] = 0
    /\ \A t1 \in Tasks, t2 \in Tasks :
          \A p \in Lookups(t1), q \in Lookups(t2) :
              p[1] = q[1] => p[2] = q[2]

\* Two list callbacks in flight together have both looked up the same names
\* and hold the one handle constructed for each.
C2_Witness ==
    \E t1 \in BagToSet(inflight), t2 \in BagToSet(inflight) :
        /\ TwoRequests(t1, t2)
        /\ t1.kind = "collectionList"
        /\ t2.kind = "collectionList"
        /\ t1.pc = "await_branches"
        /\ t2.pc = "await_branches"
        /\ Lookups(t1) # {}
        /\ Lookups(t1) = Lookups(t2)
        /\ \A p \in Lookups(t1) : constructed[p[1]] = 1

-----------------------------------------------------------------------------
(* C3 *)

AlwaysRegistered ==
    { "readQuery", "listDatabases", "listCollections",
      "collectionRead", "documentRead", "collectionList" }

C3_Capabilities ==
    /\ pcMain \in {"connect", "serving", "ended"} =>
          /\ AlwaysRegistered \subseteq registered
          /\ ("readWriteQuery" \in registered) <=> FlagGiven
          /\ registered \subseteq AlwaysRegistered \cup {"readWriteQuery"}
    /\ pcMain \notin {"connect", "serving", "ended"} => registered = {}
    /\ \A t \in Tasks :
          /\ t.kind \in registered
          /\ t.kind = "readWriteQuery" => FlagGiven

C3_Fixed == pcMain = "serving" => registered' = registered

\* C3: once the registrations are made the registered set holds readQuery,
\* listDatabases, listCollections and both resource templates, and
\* readWriteQuery exactly when --enable-write is among the arguments; every
\* request in progress is for a registered capability, a readWriteQuery
\* request only with the flag; and the set never changes while serving.
C3_WriteGate == []C3_Capabilities /\ [][C3_Fixed]_vars

\* A server started without the flag is serving a request, readWriteQuery
\* not registered.
C3_Witness ==
    /\ pcMain = "serving"
    /\ ~FlagGiven
    /\ "readWriteQuery" \notin registered
    /\ \E t \in BagToSet(inflight) : t.kind = "readQuery"

-----------------------------------------------------------------------------
(* C4 *)

\* C4: a server started without --enable-write never has the database run a
\* modifying query.
C4_NoModificationWithoutFlag == (pcMain = "serving" /\ ~FlagGiven) => ~modified

-----------------------------------------------------------------------------
(* C6 *)

\* C6: a handler that throws the error of a failed database call has
\* emitted an error-severity log message first.
C6_FailureLogged ==
    (cur.pc = "threw" /\ cur.error = "ArangoError") => cur.errorLogged

-----------------------------------------------------------------------------
(* C8 *)

\* C8: getOrCreateDatabaseConnection is never called with the empty string
\* and no cache entry is stored under it.
C8_NonEmptyKeys ==
    /\ "" \notin DOMAIN databaseConnections
    /\ cur.pc \in {"lookup", "construct"} => LookupName(cur) # ""

-----------------------------------------------------------------------------
(* C5 *)

HasPrefix(u) == Len(u) >= Len(Prefix) /\ \A i \in 1..Len(Prefix) : u[i] = Prefix[i]

Slashes(s) == { i \in 1..Len(s) : s[i] = "/" }

SlashFree(s) == Slashes(s) = {}

First(S) == CHOOSE i \in S : \A j \in S : i <= j

Last(S) == CHOOSE i \in S : \A j \in S : j <= i

\* The parse algorithm of the specification, by the places of the slashes in
\* the text behind the prefix: one slash makes two components, two make
\* three.
SpecifiedParse(u) ==
    IF ~HasPrefix(u)
    THEN InvalidArangoDBURIError("URI must start with \"arangodb:///\"")
    ELSE
      LET rest == [i \in 1..(Len(u) - Len(Prefix)) |-> u[i + Len(Prefix)]]
          at == Slashes(rest)
          d == SubSeq(rest, 1, First(at) - 1)
          c == IF Cardinality(at) = 1
               THEN SubSeq(rest, First(at) + 1, Len(rest))
               ELSE SubSeq(rest, First(at) + 1, Last(at) - 1)
          id == SubSeq(rest, Last(at) + 1, Len(rest))
      IN IF Cardinality(at) \notin {1, 2}
         THEN InvalidArangoDBURIError(
                "URI must have 2 or 3 components: databaseName/collectionName[/documentId]")
         ELSE IF d = <<>>
         THEN InvalidArangoDBURIError("Database name cannot be empty")
         ELSE IF c = <<>>
         THEN InvalidArangoDBURIError("Collection name cannot be empty")
         ELSE IF Cardinality(at) = 1
         THEN CollectionURI(d, c)
         ELSE IF id = <<>>
         THEN InvalidArangoDBURIError("Document ID cannot be empty")
         ELSE DocumentURI(d, c, id)

NonEmptyName(s) == s # <<>> /\ s # Undefined /\ SlashFree(s)

\* C5: the outcome of parseArangoDBURI is that of the specified algorithm on
\* every input; a returned address has non-empty, slash-free components and
\* is the input taken apart (prefix, names, slashes); and every input of the
\* form prefix d / c or prefix d / c / id with non-empty slash-free d, c, id
\* comes back as exactly that collection or document address.
C5_ParseAsSpecified ==
    parsed # NotParsed =>
      /\ parsed = SpecifiedParse(uri)
      /\ parsed.type \in {"collection", "document", "InvalidArangoDBURIError"}
      /\ parsed.type = "collection" =>
            /\ NonEmptyName(parsed.databaseName)
            /\ NonEmptyName(parsed.collectionName)
            /\ uri = Prefix \o parsed.databaseName \o <<"/">> \o parsed.collectionName
      /\ parsed.type = "document" =>
            /\ NonEmptyName(parsed.databaseName)
            /\ NonEmptyName(parsed.collectionName)
            /\ NonEmptyName(parsed.documentId)
            /\ uri = Prefix \o parsed.databaseName \o <<"/">> \o parsed.collectionName
                       \o <<"/">> \o parsed.documentId
      /\ \A i \in 1..Len(uri) :
            LET d == SubSeq(uri, Len(Prefix) + 1, i - 1)
                c == SubSeq(uri, i + 1, Len(uri))
            IN (/\ HasPrefix(uri) /\ i > Len(Prefix) /\ uri[i] = "/"
                /\ d # <<>> /\ SlashFree(d) /\ c # <<>> /\ SlashFree(c))
               => parsed = CollectionURI(d, c)
      /\ \A i \in 1..Len(uri), j \in 1..Len(uri) :
            LET d == SubSeq(uri, Len(Prefix) + 1, i - 1)
                c == SubSeq(uri, i + 1, j - 1)
                id == SubSeq(uri, j + 1, Len(uri))
            IN (/\ HasPrefix(uri) /\ i > Len(Prefix) /\ i < j
                /\ uri[i] = "/" /\ uri[j] = "/"
                /\ d # <<>> /\ SlashFree(d) /\ c # <<>> /\ SlashFree(c)
                /\ id # <<>> /\ SlashFree(id))
               => parsed = DocumentURI(d, c, id)

\* A document address with a two-character id has been returned.
C5_Witness ==
    /\ parsed.type = "document"
    /\ Len(parsed.documentId) = 2
    /\ uri = Prefix \o parsed.databaseName \o <<"/">> \o parsed.collectionName
               \o <<"/">> \o parsed.documentId

-----------------------------------------------------------------------------
(* C7 *)

\* The user databases of a listing, as a set.
UserDatabaseSet(listing) == { d \in Range(listing) : d # "_system" }

\* The entries of result whose uri is that of collection c of database d.
EntriesFor(result, d, c) ==
    { k \in 1..Len(result) : result[k].uri = "arangodb:///" \o d \o "/" \o c }

\* The list callback has started its branches.
FannedOut(t) ==
    /\ t.kind = "collectionList"
    /\ t.branches # <<>>
    /\ t.pc \in {"await_branches", "returned", "threw"}

\* Branch b has failed: its query, its cursor or the validation of a row.
Failed(b) == b.error # ""

\* C7: the list callback starts one branch per database other than _system;
\* once a branch has failed (its query, its cursor or the validation of a
\* row) the callback never returns resources, whatever the other branches do
\* and in whatever order; when the callback throws, it throws the error of a
\* failed branch (or that of db.databases()) and has no result; and when it
\* returns, every branch is done without failure and the result holds exactly
\* one entry arangodb:///<db>/<collection> per collection of each branch and
\* no other entry.
C7_AllOrNothing ==
    \A t \in Tasks :
        t.kind = "collectionList" =>
          /\ FannedOut(t) =>
                /\ { b.database : b \in Range(t.branches) }
                      = UserDatabaseSet(t.listing)
                /\ Len(t.branches) = Cardinality(UserDatabaseSet(t.listing))
          /\ (\E b \in Range(t.branches) : Failed(b)) => t.pc # "returned"
          /\ (\E b \in Range(t.branches) : b.pc = "failed") =>
                /\ t.pc \in {"await_branches", "threw", "answered"}
                /\ t.pc # "answered" =>
                      /\ t.error \in {"ArangoError", "ZodError"}
                      /\ \E b \in Range(t.branches) :
                            b.pc = "failed" /\ b.error = t.error
          /\ t.pc = "answered" =>
                /\ t.result = <<>>
                /\ \E b \in Range(t.branches) : b.pc = "failed"
          /\ t.pc = "threw" =>
                /\ t.result = <<>>
                /\ t.branches # <<>> =>
                      \E b \in Range(t.branches) :
                          b.pc = "failed" /\ b.error = t.error
          /\ t.pc = "returned" =>
                /\ \A b \in Range(t.branches) : b.pc = "done" /\ ~Failed(b)
                /\ \A b \in Range(t.branches) :
                      \A c \in Range(b.collections) :
                          Cardinality(EntriesFor(t.result, b.database, c)) = 1
                /\ \A k \in 1..Len(t.result) :
                      \E b \in Range(t.branches) :
                          \E c \in Range(b.collections) :
                              k \in EntriesFor(t.result, b.database, c)

\* The list callback has returned the four resources of two databases with
\* two collections each.
C7_Witness ==
    /\ cur.kind = "collectionList"
    /\ cur.pc = "returned"
    /\ Len(cur.branches) = 2
    /\ Len(cur.result) = 4

-----------------------------------------------------------------------------
(* C9 *)

\* C9: once the root handle is made, the credential is the (username,
\* password) pair exactly when both positionals were supplied, and the root
\* handle and every cached handle carry it and the startup URL.
C9_CredentialPairing ==
    db.made =>
      /\ auth.present <=> (Len(positionals) >= 3)
      /\ auth.present =>
            /\ auth.username = positionals[2]
            /\ auth.password = positionals[3]
      /\ db.auth = auth
      /\ db.url = positionals[1]
      /\ \A n \in DOMAIN databaseConnections :
            /\ databaseConnections[n].auth = auth
            /\ databaseConnections[n].url = positionals[1]

-----------------------------------------------------------------------------
(* C10 *)

IsFlagToken(tok) == Len(tok) >= 2 /\ tok[1] = "-" /\ tok[2] = "-"

UnknownFlagGiven ==
    \E i \in 1..Len(args) :
        IsFlagToken(args[i]) /\ args[i] # EnableWriteFlag /\ args[i] # HelpFlag

HelpGiven == \E i \in 1..Len(args) : args[i] = HelpFlag

UrlGiven == \E i \in 1..Len(args) : ~IsFlagToken(args[i])

\* The exit the claim gives for the argument list; <<>> when startup
\* proceeds.
ClaimedExit ==
    IF UnknownFlagGiven THEN <<1>>
    ELSE IF HelpGiven THEN <<0>>
    ELSE IF ~UrlGiven THEN <<1>>
    ELSE <<>>

\* C10: the process exits exactly in the three cases (unknown flag: 1; else
\* --help: 0; else no positional: 1), with the usage text the last thing
\* printed and with no database client, no registration and no request; in
\* every other case it never exits, and the client and the registrations are
\* only ever made in those other cases.
C10_ArgumentOutcome ==
    /\ pcMain = "exited" =>
          /\ exitCode # NoExit
          /\ exitCode = ClaimedExit
          /\ stderr # <<>>
          /\ stderr[Len(stderr)] = UsageText
          /\ ~db.made
          /\ registered = {}
          /\ Tasks = {}
    /\ pcMain # "exited" => exitCode = NoExit
    /\ ClaimedExit = <<>> => pcMain # "exited"
    /\ (db.made \/ registered # {}
           \/ pcMain \in {"register", "connect", "serving", "ended"})
          => ClaimedExit = <<>>
    /\ pcMain \in {"connect", "serving", "ended"} => (db.made /\ registered # {})

\* --help given behind a URL: exit code 0.
C10_Witness ==
    /\ pcMain = "exited"
    /\ exitCode = <<0>>
    /\ Len(positionals) >= 1
    /\ Len(args) >= 2

=============================================================================
